---- MODULE Spec2Model ----
(***************************************************************************)
(* Panorama viewer and region selection (Plan2Shop frontend).              *)
(*                                                                         *)
(*   Spec      Scene360 of frontend/src/components/scene-360.tsx: mode     *)
(*             state machine, CanvasCapture effect, OrbitControls,         *)
(*             SelectionOverlay.                                           *)
(*   SpecCrop  SelectionOverlay.handleCropComplete applied to images and   *)
(*             selection rectangles drawn from bounded sets.               *)
(*   SpecUV    cropImageFromUV / SphereViewer.handleClick of the direct    *)
(*             click-to-crop variant.                                      *)
(***************************************************************************)
EXTENDS Integers, Sequences, FiniteSets, TLC

(***************************************************************************)
(* JavaScript numbers.  The crop arithmetic is done on IEEE-754 binary64   *)
(* values.  A non-negative number is held exactly as five limbs            *)
(*   <<i, f1, f2, f3, f4>>  =  i + f1/B + f2/B^2 + f3/B^3 + f4/B^4         *)
(* with B = 2^16, i.e. a fixed-point value with 64 fraction bits.  Every   *)
(* binary64 value v with v = 0 or 2^-11 <= v < 2^31 has this form, which   *)
(* covers all quotients and products of the pixel sizes used below.        *)
(***************************************************************************)
LimbBase == 2^16

Precision == 53

FracBits == 4 * 16

RECURSIVE Log2(_)
Log2(n) == IF n < 2 THEN 0 ELSE 1 + Log2(n \div 2)

FromInt(n) == <<n, 0, 0, 0, 0>>

IntPart(v) == v[1]

\* carry propagation from the least significant limb upwards
Norm(r) ==
    LET l4 == r[5]
        l3 == r[4] + (l4 \div LimbBase)
        l2 == r[3] + (l3 \div LimbBase)
        l1 == r[2] + (l2 \div LimbBase)
    IN  <<r[1] + (l1 \div LimbBase), l1 % LimbBase, l2 % LimbBase,
          l3 % LimbBase, l4 % LimbBase>>

\* exact sum and exact product with a small integer
NumAdd(a, b) == Norm([j \in 1..5 |-> a[j] + b[j]])

NumMulInt(k, v) == Norm([j \in 1..5 |-> k * v[j]])

\* a <= b, limb by limb
NumLe(a, b) ==
    \/ a = b
    \/ \E j \in 1..5 : a[j] < b[j] /\ \A i \in 1..(j - 1) : a[i] = b[i]

\* exponent of the leading bit of v > 0
Exponent(v) ==
    IF v[1] >= 1 THEN Log2(v[1])
    ELSE LET j == CHOOSE i \in 1..4 : v[i + 1] # 0 /\ \A h \in 1..(i - 1) : v[h + 1] = 0
         IN  Log2(v[j + 1]) - 16 * j

\* fraction bit b (weight 2^-b), 1 <= b <= 64
FracBit(v, b) ==
    LET j == ((b - 1) \div 16) + 1
    IN  (v[j + 1] \div 2^(16 * j - b)) % 2

\* v with the fraction bits below weight 2^-f cleared
TruncFrac(v, f) ==
    [j \in 1..5 |->
        IF j = 1 THEN v[1]
        ELSE IF 16 * (j - 1) <= f THEN v[j]
        ELSE IF 16 * (j - 2) >= f THEN 0
        ELSE v[j] - (v[j] % 2^(16 * (j - 1) - f))]

\* v + 2^-f
AddUlp(v, f) ==
    IF f = 0 THEN [v EXCEPT ![1] = @ + 1]
    ELSE LET j == ((f - 1) \div 16) + 1
         IN  Norm([v EXCEPT ![j + 1] = @ + 2^(16 * j - f)])

\* Round to nearest, ties to even, to a 53-bit significand.  sticky tells
\* that the exact value lies strictly above v (bits beyond the 64th).
RoundToDouble(v, sticky) ==
    IF v = FromInt(0) THEN v
    ELSE LET f == (Precision - 1) - Exponent(v)
         IN  IF f >= FracBits THEN v
             ELSE LET kept  == TruncFrac(v, f)
                      half  == FracBit(v, f + 1) = 1
                      below == sticky \/ TruncFrac(v, f + 1) # v
                      odd   == IF f = 0 THEN v[1] % 2 = 1 ELSE FracBit(v, f) = 1
                  IN  IF half /\ (below \/ odd) THEN AddUlp(kept, f) ELSE kept

\* n / d for integers n >= 0, d > 0 (JavaScript `n / d`)
NumDiv(n, d) ==
    LET r0 == n % d
        r1 == (r0 * LimbBase) % d
        r2 == (r1 * LimbBase) % d
        r3 == (r2 * LimbBase) % d
        r4 == (r3 * LimbBase) % d
    IN  RoundToDouble(<<n \div d, (r0 * LimbBase) \div d, (r1 * LimbBase) \div d,
                        (r2 * LimbBase) \div d, (r3 * LimbBase) \div d>>, r4 # 0)

\* k * v for an integer k >= 0 (JavaScript `k * v`)
NumMul(k, v) == RoundToDouble(NumMulInt(k, v), FALSE)

\* conversion to the `unsigned long` of canvas.width / canvas.height:
\* the fraction is dropped (values stay far below 2^32)
ToUnsignedLong(v) == IntPart(v)

(***************************************************************************)
(* Bounds of the model and program constants                               *)
(***************************************************************************)
NumViews == 2

MaxSpin == 1

MaxCaptures == 2

MaxEvents == 2

\* handleSelectMode invocations followed while a capture is already pending
MaxRepeats == 2

\* generateFurnishedRoom calls and searchProducts calls followed on the page
MaxGenerations == 2

MaxSearches == 2

\* uv coordinates are the multiples of 1/UVDen in [0, 1]; UVDen is a power
\* of two, so every value below is exact in binary64
UVBits == 2

UVDen == 2^UVBits

\* pixel coordinates of cropImageFromUV are held as multiples of 1/Sub px
Sub == 2 * UVDen

\* `cropImageFromUV(imageUrl, uv, 500)`
CropSize == 500

\* `c.width > 20 && c.height > 20`
MinCropSize == 20

\* null / absent values are the empty sequence, a value v is <<v>>
Null == <<>>

Some(v) == <<v>>

\* backing-store sizes of the WebGL canvas (CSS size times dpr in [1, 2])
CanvasSizes == {[width |-> 1600, height |-> 800]}

\* layout sizes of the <img> of the overlay (w-full, max-h 50vh / 60vh)
Layouts == {[width |-> 768, height |-> 384]}

VARIABLES
    mode,                  \* useState<ViewMode>("navigate")
    capturedImage,         \* useState<string | null>(null)
    captureRequested,      \* useState(false)
    showSelectionOverlay,  \* useState(false)
    texture,               \* useLoader(TextureLoader, imageUrl): "loading" | "loaded"
                           \* | "failed"; SphereViewer and CanvasCapture are
                           \* mounted once loaded
    captureDeps,           \* CanvasCapture: captureRequested of the render whose
                           \* effect ran last, Null before the first run
    canvas,                \* gl.domElement width / height
    camera,                \* view of the perspective camera, 0..NumViews-1
    spin,                  \* damping steps OrbitControls still has to apply
    image,                 \* imgRef.current of SelectionOverlay
    isLoading,             \* useState(true)
    thrown,                \* the error that left Scene360 ("capture" | "texture"),
                           \* Null while the component is mounted
    captureCount,          \* history: onCapture calls so far
    capturesThisEntry,     \* history: onCapture calls since navigate -> select
    camAtRequest,          \* history: camera when handleSelectMode last ran
    nComplete,             \* history: ReactCrop onComplete events so far
    lastC,                 \* history: PixelCrop and context of the last event
    selectCalls,           \* history: onSelectProduct calls so far
    croppedImage,          \* history: argument of the last onSelectProduct call
    selectsWhilePending,   \* history: handleSelectMode calls made while the
                           \* request last raised was still pending
    \* direct click-to-crop variant of Scene360
    uvMode,                \* useState<ViewMode>("navigate")
    isProcessing,          \* SphereViewer: useState(false)
    hasSelected,           \* useState(false)
    uvImg,                 \* natural size of the panorama at imageUrl
    uvPending,             \* uv of the cropImageFromUV call in flight, or Null
    uvCrop,                \* history: result of the last resolved cropImageFromUV
    uvSelectCalls,         \* history: onSelectProduct calls so far
    \* HomePage (page.tsx)
    appState,              \* useState<AppState>("upload")
    selectedFile,          \* useState<File | null>(null)
    style,                 \* useState("")
    generatedImage,        \* useState<string | null>(null)
    enhancedStyle,         \* useState<string | null>(null)
    is360Format,           \* useState(false)
    sheetOpen,             \* useState(false)
    products,              \* useState<Product[]>([])
    isSearching,           \* useState(false)
    searchError,           \* useState<string | null>(null)
    pageCroppedImage,      \* croppedImage: useState<string | null>(null)
    generating,            \* generateFurnishedRoom calls in flight
    searching,             \* searchProducts calls in flight
    nGenerate,             \* history: generateFurnishedRoom calls so far
    nSearch,               \* history: searchProducts calls so far
    activeSearch,          \* history: the latest searchProducts call, Null
                           \* once handleReset has run since
    abandoned,             \* history: generateFurnishedRoom calls that were
                           \* pending when handleReset ran
    outcomes,               \* history: how each settled searchProducts call ended
    \* counter-triggered variant of Scene360
    showSelection,         \* useState(false)
    ctCapturedImage,       \* capturedImage: useState<string | null>(null)
    captureCounter,        \* useState(0)
    isCapturing,           \* useState(false)
    ctIsLoading,           \* isLoading: useState(true)
    ctTexture,             \* useLoader(TextureLoader, imageUrl): "loading" | "loaded"
    lastTrigger,           \* CanvasCapture: useRef(0)
    ctDeps,                \* CanvasCapture: triggerCapture of the render whose
                           \* effect ran last, Null while it is not mounted
    ctTimers,              \* setTimeout callbacks of CanvasCapture not yet run
    ctCamera,              \* view of the Canvas's camera, 0..NumViews-1
    ctSelectCalls,         \* history: onSelectProduct calls so far
    ctSelectClicks,        \* history: clicks on the select button so far
    ctCaptureCalls,         \* history: onCapture calls so far
    \* variant of Scene360 that renders the Canvas only in navigate mode
    mcMode,                \* mode: useState<ViewMode>("navigate")
    mcCapturedImage,       \* capturedImage: useState<string | null>(null)
    mcCaptureRequested,    \* captureRequested: useState(false)
    mcIsLoading,           \* isLoading: useState(true)
    mcTexture,             \* useLoader(TextureLoader, imageUrl): "loading" | "loaded"
    mcDeps,                \* CanvasCapture: captureRequested of the render whose
                           \* effect ran last, Null while it is not mounted
    mcCamera,              \* view of the Canvas's camera, 0..NumViews-1
    mcRequests,            \* history: handleSelectMode calls made in navigate mode
    mcCaptureCalls,        \* history: onCapture calls so far
    mcSelectCalls,          \* history: onSelectProduct calls so far
    \* three-state variant of Scene360
    tsMode,                \* mode: useState<"navigate" | "capture" | "select">
    tsCapturedImage,       \* capturedImage: useState<string | null>(null)
    tsIsLoading,           \* isLoading: useState(true)
    tsTexture,             \* useLoader(TextureLoader, imageUrl): "loading" | "loaded"
    hasCaptured,           \* CanvasCapture: useRef(false)
    tsDeps,                \* CanvasCapture: shouldCapture of the render whose
                           \* effect ran last, Null while it is not mounted
    tsCamera,              \* view of the Canvas's camera, 0..NumViews-1
    tsEntries,             \* history: entries into capture mode so far
    tsCaptureCalls,        \* history: onCapture calls so far
    tsCapturesThisEntry,   \* history: onCapture calls since the last entry
    tsSelectCalls,          \* history: onSelectProduct calls so far
    \* click-marker variant of Scene360
    markers,               \* useState<MarkerData[]>([])
    mkIsProcessing,        \* SphereViewer: isProcessing, useState(false)
    mkIsLoading,           \* isLoading: useState(true)
    mkTexture,             \* useLoader(TextureLoader, imageUrl): "loading" | "loaded"
    mkPending,             \* point of the cropImageFromUV call in flight, or Null
    mkAccepted,            \* history: the markers of all accepted clicks
    mkSelectCalls          \* history: onSelectProduct calls so far

sceneVars == <<mode, capturedImage, captureRequested, showSelectionOverlay,
               texture, captureDeps, canvas, camera, spin, image>>

loadVars == <<isLoading, thrown>>

histVars == <<captureCount, capturesThisEntry, camAtRequest, nComplete, lastC,
              selectCalls, croppedImage, selectsWhilePending>>

uvVars == <<uvMode, isProcessing, hasSelected, uvImg, uvPending, uvCrop, uvSelectCalls>>

pageVars == <<appState, selectedFile, style, generatedImage, enhancedStyle,
              is360Format, sheetOpen, products, isSearching, searchError,
              pageCroppedImage, generating, searching>>

pageHist == <<nGenerate, nSearch, activeSearch, abandoned, outcomes>>

ctVars == <<showSelection, ctCapturedImage, captureCounter, isCapturing,
            ctIsLoading, ctTexture, lastTrigger, ctDeps, ctTimers, ctCamera,
            ctSelectCalls, ctSelectClicks, ctCaptureCalls>>

mcVars == <<mcMode, mcCapturedImage, mcCaptureRequested, mcIsLoading, mcTexture,
            mcDeps, mcCamera, mcRequests, mcCaptureCalls, mcSelectCalls>>

tsVars == <<tsMode, tsCapturedImage, tsIsLoading, tsTexture, hasCaptured, tsDeps,
            tsCamera, tsEntries, tsCaptureCalls, tsCapturesThisEntry,
            tsSelectCalls>>

mkVars == <<markers, mkIsProcessing, mkIsLoading, mkTexture, mkPending,
            mkAccepted, mkSelectCalls>>

\* the state of the other variants of Scene360
variantVars == <<ctVars, mcVars, tsVars, mkVars>>

vars == <<sceneVars, loadVars, histVars, uvVars, pageVars, pageHist, variantVars>>

\* what the actions of Scene360 (scene-360.tsx) leave alone
notScene == <<uvVars, pageVars, pageHist, variantVars>>

\* what the actions of the click-to-crop variant leave alone
notUV == <<sceneVars, loadVars, histVars, pageVars, pageHist, variantVars>>

\* what the actions of HomePage (page.tsx) leave alone
notPage == <<sceneVars, loadVars, histVars, uvVars, variantVars>>

\* what the actions of the counter-triggered variant leave alone
notCT == <<sceneVars, loadVars, histVars, uvVars, pageVars, pageHist, mcVars,
           tsVars, mkVars>>

\* what the actions of the variant with the mode-conditional Canvas leave alone
notMC == <<sceneVars, loadVars, histVars, uvVars, pageVars, pageHist, ctVars,
           tsVars, mkVars>>

\* what the actions of the three-state variant leave alone
notTS == <<sceneVars, loadVars, histVars, uvVars, pageVars, pageHist, ctVars,
           mcVars, mkVars>>

\* what the actions of the click-marker variant leave alone
notMK == <<sceneVars, loadVars, histVars, uvVars, pageVars, pageHist, ctVars,
           mcVars, tsVars>>

\* `{showSelectionOverlay && capturedImage && (<SelectionOverlay .../>)}`
OverlayRendered(show, img) == show /\ img # Null

\* `<OrbitControls enabled={!showSelectionOverlay} .../>`
OrbitEnabled == ~showSelectionOverlay

\* Scene360 is mounted: nothing was thrown past it
Mounted == thrown = Null

\* initial state of the click-to-crop variant, for a panorama of size sz
UVInit(sz) ==
    /\ uvMode = "navigate"
    /\ isProcessing = FALSE
    /\ hasSelected = FALSE
    /\ uvImg = sz
    /\ uvPending = Null
    /\ uvCrop = Null
    /\ uvSelectCalls = 0

\* state of scene-360.tsx's Scene360 after construction
SceneIdle ==
    /\ mode = "navigate"
    /\ capturedImage = Null
    /\ captureRequested = FALSE
    /\ showSelectionOverlay = FALSE
    /\ texture = "loading"
    /\ captureDeps = Null
    /\ canvas \in CanvasSizes
    /\ camera = 0
    /\ spin = 0
    /\ image = Null
    /\ isLoading = TRUE
    /\ thrown = Null
    /\ captureCount = 0
    /\ capturesThisEntry = 0
    /\ camAtRequest = 0
    /\ nComplete = 0
    /\ lastC = Null
    /\ selectCalls = 0
    /\ croppedImage = Null
    /\ selectsWhilePending = 0

\* state of page.tsx's HomePage after construction
PageInit ==
    /\ appState = "upload"
    /\ selectedFile = Null
    /\ style = ""
    /\ generatedImage = Null
    /\ enhancedStyle = Null
    /\ is360Format = FALSE
    /\ sheetOpen = FALSE
    /\ products = <<>>
    /\ isSearching = FALSE
    /\ searchError = Null
    /\ pageCroppedImage = Null
    /\ generating = {}
    /\ searching = {}
    /\ nGenerate = 0
    /\ nSearch = 0
    /\ activeSearch = Null
    /\ abandoned = {}
    /\ outcomes = {}

\* state of the counter-triggered Scene360 after construction
CTInit ==
    /\ showSelection = FALSE
    /\ ctCapturedImage = Null
    /\ captureCounter = 0
    /\ isCapturing = FALSE
    /\ ctIsLoading = TRUE
    /\ ctTexture = "loading"
    /\ lastTrigger = 0
    /\ ctDeps = Null
    /\ ctTimers = 0
    /\ ctCamera = 0
    /\ ctSelectCalls = 0
    /\ ctSelectClicks = 0
    /\ ctCaptureCalls = 0

\* state of the Scene360 with the mode-conditional Canvas after construction
MCInit ==
    /\ mcMode = "navigate"
    /\ mcCapturedImage = Null
    /\ mcCaptureRequested = FALSE
    /\ mcIsLoading = TRUE
    /\ mcTexture = "loading"
    /\ mcDeps = Null
    /\ mcCamera = 0
    /\ mcRequests = 0
    /\ mcCaptureCalls = 0
    /\ mcSelectCalls = 0

\* state of the three-state Scene360 after construction
TSInit ==
    /\ tsMode = "navigate"
    /\ tsCapturedImage = Null
    /\ tsIsLoading = TRUE
    /\ tsTexture = "loading"
    /\ hasCaptured = FALSE
    /\ tsDeps = Null
    /\ tsCamera = 0
    /\ tsEntries = 0
    /\ tsCaptureCalls = 0
    /\ tsCapturesThisEntry = 0
    /\ tsSelectCalls = 0

\* state of the click-marker Scene360 after construction
MKInit ==
    /\ markers = <<>>
    /\ mkIsProcessing = FALSE
    /\ mkIsLoading = TRUE
    /\ mkTexture = "loading"
    /\ mkPending = Null
    /\ mkAccepted = <<>>
    /\ mkSelectCalls = 0

\* state of the other variants of Scene360 after construction
VariantsInit == CTInit /\ MCInit /\ TSInit /\ MKInit

Init ==
    /\ SceneIdle
    /\ UVInit([width |-> 4000, height |-> 2000])
    /\ PageInit
    /\ VariantsInit

(***************************************************************************)
(* Scene360                                                                *)
(***************************************************************************)

\* const handleSelectMode = () => { setMode("select"); setCaptureRequested(true); }
handleSelectMode ==
    /\ Mounted
    /\ captureCount + (IF captureRequested THEN 1 ELSE 0) < MaxCaptures
    /\ captureRequested => selectsWhilePending < MaxRepeats
    /\ mode' = "select"
    /\ captureRequested' = TRUE
    /\ capturesThisEntry' = IF mode = "navigate" THEN 0 ELSE capturesThisEntry
    /\ camAtRequest' = camera
    /\ selectsWhilePending' = IF captureRequested THEN selectsWhilePending + 1 ELSE 0
    /\ UNCHANGED <<capturedImage, showSelectionOverlay, texture, captureDeps,
                   canvas, camera, spin, image>>
    /\ UNCHANGED loadVars
    /\ UNCHANGED <<captureCount, nComplete, lastC, selectCalls, croppedImage>>
    /\ UNCHANGED notScene

\* the <img ref={imgRef} src={capturedImage}> of a rendered overlay, laid out
\* at layout size l
OverlayImage(frame, l) ==
    [naturalWidth |-> frame.width, naturalHeight |-> frame.height,
     width |-> l.width, height |-> l.height]

\* gl.render(scene, camera); gl.domElement.toDataURL("image/png")
CaptureFrame(seq) ==
    [seq |-> seq, view |-> camera, width |-> canvas.width, height |-> canvas.height]

\* the request is left raised after a capture
handleCaptureComplete_keepsRequest == TRUE

\* const handleCaptureComplete = () => { setCaptureRequested(false); }:
\* the value of captureRequested after it
handleCaptureComplete == FALSE

\* CanvasCapture: the R3F tree re-renders with the current captureRequested
\* and its effect runs (on mount and whenever captureRequested changed).
\*   if (captureRequested) { gl.render; toDataURL; onCapture; onCaptureComplete }
\* onCapture = handleCapture: setCapturedImage(dataUrl); setShowSelectionOverlay(true)
\* onCaptureComplete = handleCaptureComplete: setCaptureRequested(false)
\* ok tells whether gl.render and toDataURL returned; when one of them
\* throws, the effect is left before onCapture and the error, which nothing
\* in Scene360 catches, unmounts the component.
CanvasCapture_effect(ok) ==
    /\ Mounted
    /\ texture = "loaded"
    /\ captureDeps # Some(captureRequested)
    /\ captureDeps' = Some(captureRequested)
    /\ IF captureRequested /\ ok
       THEN /\ capturedImage' = Some(CaptureFrame(captureCount + 1))
            /\ showSelectionOverlay' = TRUE
            /\ captureRequested' = handleCaptureComplete
            /\ \E l \in Layouts :
                   image' = IF image = Null
                            THEN Some(OverlayImage(CaptureFrame(captureCount + 1), l))
                            ELSE image
            /\ captureCount' = captureCount + 1
            /\ capturesThisEntry' = capturesThisEntry + 1
            /\ UNCHANGED thrown
       ELSE /\ thrown' = IF captureRequested THEN Some("capture") ELSE thrown
            /\ captureRequested \/ ok
            /\ UNCHANGED <<capturedImage, showSelectionOverlay, captureRequested,
                           image, captureCount, capturesThisEntry>>
    /\ UNCHANGED <<mode, texture, canvas, camera, spin, isLoading>>
    /\ UNCHANGED <<camAtRequest, nComplete, lastC, selectCalls, croppedImage,
                   selectsWhilePending>>
    /\ UNCHANGED notScene

\* useLoader resolves: the Suspense boundary mounts SphereViewer and
\* CanvasCapture
TextureLoaded ==
    /\ Mounted
    /\ texture = "loading"
    /\ texture' = "loaded"
    /\ UNCHANGED <<mode, capturedImage, captureRequested, showSelectionOverlay,
                   captureDeps, canvas, camera, spin, image>>
    /\ UNCHANGED loadVars
    /\ UNCHANGED histVars
    /\ UNCHANGED notScene

\* the loader of useLoader fails: SphereViewer throws the error when it is
\* rendered again; <Suspense> catches promises only and Scene360 has no error
\* boundary, so the error leaves Scene360 with the state it had
TextureFailed ==
    /\ Mounted
    /\ texture = "loading"
    /\ texture' = "failed"
    /\ thrown' = Some("texture")
    /\ UNCHANGED <<mode, capturedImage, captureRequested, showSelectionOverlay,
                   captureDeps, canvas, camera, spin, image, isLoading>>
    /\ UNCHANGED histVars
    /\ UNCHANGED notScene

\* preload effect: img.onload = () => setIsLoading(false);
\*                 img.onerror = () => setIsLoading(false)
\* loaded tells which of the two events fired
Preload_settled(loaded) ==
    /\ Mounted
    /\ isLoading
    /\ isLoading' = FALSE
    /\ UNCHANGED thrown
    /\ UNCHANGED sceneVars
    /\ UNCHANGED histVars
    /\ UNCHANGED notScene

\* Navigation button: onClick={() => { setMode("navigate"); setShowSelectionOverlay(false); }}
NavigationClick ==
    /\ Mounted
    /\ mode' = "navigate"
    /\ showSelectionOverlay' = FALSE
    /\ image' = Null
    /\ UNCHANGED <<capturedImage, captureRequested, texture, captureDeps, canvas,
                   camera, spin>>
    /\ UNCHANGED loadVars
    /\ UNCHANGED histVars
    /\ UNCHANGED notScene

\* close button of the overlay:
\*   setShowSelectionOverlay(false); setCapturedImage(null); setMode("navigate")
handleCloseOverlay ==
    /\ Mounted
    /\ OverlayRendered(showSelectionOverlay, capturedImage)
    /\ showSelectionOverlay' = FALSE
    /\ capturedImage' = Null
    /\ mode' = "navigate"
    /\ image' = Null
    /\ UNCHANGED <<captureRequested, texture, captureDeps, canvas, camera, spin>>
    /\ UNCHANGED loadVars
    /\ UNCHANGED histVars
    /\ UNCHANGED notScene

\* OrbitControls (enableDamping): a drag rotates the camera and leaves
\* residual motion; refused while the controls are disabled
OrbitControls_rotate(d) ==
    /\ Mounted
    /\ OrbitEnabled
    /\ camera' = (camera + d) % NumViews
    /\ spin' = MaxSpin
    /\ UNCHANGED <<mode, capturedImage, captureRequested, showSelectionOverlay,
                   texture, captureDeps, canvas, image>>
    /\ UNCHANGED loadVars
    /\ UNCHANGED histVars
    /\ UNCHANGED notScene

\* OrbitControls per-frame update: applies the damped residual motion
OrbitControls_update ==
    /\ Mounted
    /\ OrbitEnabled
    /\ spin > 0
    /\ camera' = (camera + 1) % NumViews
    /\ spin' = spin - 1
    /\ UNCHANGED <<mode, capturedImage, captureRequested, showSelectionOverlay,
                   texture, captureDeps, canvas, image>>
    /\ UNCHANGED loadVars
    /\ UNCHANGED histVars
    /\ UNCHANGED notScene

(***************************************************************************)
(* SelectionOverlay.handleCropComplete                                     *)
(***************************************************************************)

\* the threshold test with 20 itself accepted
AcceptsCrop_inclusive(c) == c.width >= MinCropSize /\ c.height >= MinCropSize

\* `c.width > 20 && c.height > 20` (imgRef.current is set while the overlay
\* is rendered)
AcceptsCrop(c) == c.width > MinCropSize /\ c.height > MinCropSize

\* the scale factor taken the wrong way round
scaleX_inverted(img) == NumDiv(img.width, img.naturalWidth)

\* const scaleX = image.naturalWidth / image.width
scaleX(img) == NumDiv(img.naturalWidth, img.width)

\* const scaleY = image.naturalHeight / image.height
scaleY(img) == NumDiv(img.naturalHeight, img.height)

\* source rectangle handed to ctx.drawImage
SourceRect(img, c) ==
    [x |-> NumMul(c.x, scaleX(img)), y |-> NumMul(c.y, scaleY(img)),
     width |-> NumMul(c.width, scaleX(img)), height |-> NumMul(c.height, scaleY(img))]

\* canvas.width = c.width * scaleX; canvas.height = c.height * scaleY
CropCanvas(img, c) ==
    [width  |-> ToUnsignedLong(NumMul(c.width, scaleX(img))),
     height |-> ToUnsignedLong(NumMul(c.height, scaleY(img)))]

\* the crop encoded by canvas.toDataURL: the source rectangle of the frame
\* drawn onto the whole canvas
CropOf(frame, img, c) ==
    [frame |-> frame.seq, source |-> SourceRect(img, c), canvas |-> CropCanvas(img, c)]

\* a crop is made without looking at the context
Dispatches_noCtxCheck(c, ctxOk) == AcceptsCrop(c)

\* `if (c.width > 20 && c.height > 20 && imgRef.current) { ... if (!ctx) return;`
Dispatches(c, ctxOk) == AcceptsCrop(c) /\ ctxOk

\* the overlay is closed once a crop has been dispatched
Scene360_handleCropComplete_closes(show) == FALSE

\* Scene360.handleCropComplete: onSelectProduct(croppedImageBase64);
\* "Keep overlay open so user can see feedback": showSelectionOverlay after it
Scene360_handleCropComplete(show) == show

\* ReactCrop onComplete={handleCropComplete}; ctxOk tells whether
\* canvas.getContext("2d") returned a context.  onCropComplete is
\* Scene360.handleCropComplete, which calls onSelectProduct and keeps the
\* overlay open.
handleCropComplete(c, ctxOk) ==
    /\ Mounted
    /\ OverlayRendered(showSelectionOverlay, capturedImage)
    /\ image # Null
    /\ nComplete < MaxEvents
    /\ nComplete' = nComplete + 1
    /\ lastC' = Some([c |-> c, ctxOk |-> ctxOk])
    /\ IF Dispatches(c, ctxOk)
       THEN /\ selectCalls' = selectCalls + 1
            /\ croppedImage' = Some(CropOf(capturedImage[1], image[1], c))
            /\ showSelectionOverlay' = Scene360_handleCropComplete(showSelectionOverlay)
       ELSE UNCHANGED <<selectCalls, croppedImage, showSelectionOverlay>>
    /\ UNCHANGED <<mode, capturedImage, captureRequested, texture, captureDeps,
                   canvas, camera, spin, image>>
    /\ UNCHANGED loadVars
    /\ UNCHANGED <<captureCount, capturesThisEntry, camAtRequest, selectsWhilePending>>
    /\ UNCHANGED notScene

Rect(x, y, w, h) == [x |-> x, y |-> y, width |-> w, height |-> h]

\* selections tried on the overlay of Scene360
SceneRects(img) ==
    {Rect(0, 0, MinCropSize, 100), Rect(50, 50, 100, MinCropSize),
     Rect(100, 100, 100, 100)}

Next ==
    \/ handleSelectMode
    \/ \E ok \in BOOLEAN : CanvasCapture_effect(ok)
    \/ TextureLoaded
    \/ TextureFailed
    \/ \E loaded \in BOOLEAN : Preload_settled(loaded)
    \/ NavigationClick
    \/ handleCloseOverlay
    \/ \E d \in 1..(NumViews - 1) : OrbitControls_rotate(d)
    \/ OrbitControls_update
    \/ \E c \in (IF image = Null THEN {} ELSE SceneRects(image[1])) :
          \E ctxOk \in BOOLEAN : handleCropComplete(c, ctxOk)

Spec == Init /\ [][Next]_vars

(***************************************************************************)
(* SpecCrop: handleCropComplete on an open overlay                         *)
(***************************************************************************)

Img(nw, nh, w, h) == [naturalWidth |-> nw, naturalHeight |-> nh, width |-> w, height |-> h]

\* captured frames and the sizes they are displayed at
CropImages ==
    {Img(4000, 2000, 800, 400), Img(1600, 800, 800, 400), Img(1600, 800, 768, 384),
     Img(1920, 1080, 1237, 696), Img(1000, 500, 300, 150), Img(800, 400, 1600, 800)}

\* selections: inside the image, touching and passing its right / bottom
\* edge, around the size threshold, and the whole displayed image
CropRects(img) ==
    {Rect(x, y, w, h) :
        x \in {0, 100, img.width - 50}, y \in {100, img.height - 50},
        w \in {10, MinCropSize, MinCropSize + 1, 100},
        h \in {MinCropSize, MinCropSize + 1, 100}}
    \cup {Rect(0, 0, img.width, img.height)}

\* the overlay is open on the frame of a first capture
InitCrop ==
    /\ mode = "select"
    /\ captureRequested = FALSE
    /\ showSelectionOverlay = TRUE
    /\ texture = "loaded"
    /\ captureDeps = Some(FALSE)
    /\ camera = 0
    /\ spin = 0
    /\ \E img \in CropImages :
          /\ canvas = [width |-> img.naturalWidth, height |-> img.naturalHeight]
          /\ capturedImage = Some([seq |-> 1, view |-> 0, width |-> img.naturalWidth,
                                   height |-> img.naturalHeight])
          /\ image = Some(img)
    /\ isLoading = FALSE
    /\ thrown = Null
    /\ captureCount = 1
    /\ capturesThisEntry = 1
    /\ camAtRequest = 0
    /\ nComplete = 0
    /\ lastC = Null
    /\ selectCalls = 0
    /\ croppedImage = Null
    /\ selectsWhilePending = 0
    /\ UVInit([width |-> 4000, height |-> 2000])
    /\ PageInit
    /\ VariantsInit

NextCrop ==
    \E c \in CropRects(image[1]) : \E ctxOk \in BOOLEAN : handleCropComplete(c, ctxOk)

SpecCrop == InitCrop /\ [][NextCrop]_vars

(***************************************************************************)
(* Direct click-to-crop: cropImageFromUV and SphereViewer.handleClick      *)
(***************************************************************************)

Max(a, b) == IF a >= b THEN a ELSE b

Min(a, b) == IF a <= b THEN a ELSE b

\* const centerX = uv.x * img.width            (uv = <<ux, uy>> / UVDen)
centerX(img, uv) == (Sub \div UVDen) * uv[1] * img.width

\* the centre row without the V flip
centerY_noFlip(img, uv) == (Sub \div UVDen) * uv[2] * img.height

\* const centerY = (1 - uv.y) * img.height
centerY(img, uv) == (Sub \div UVDen) * (UVDen - uv[2]) * img.height

\* the left edge a whole cropSize left of the centre
sourceX_noHalf(img, uv, cropSize) == centerX(img, uv) - Sub * cropSize

\* const sourceX = centerX - cropSize / 2
sourceX(img, uv, cropSize) == centerX(img, uv) - (Sub \div 2) * cropSize

\* const sourceY = centerY - cropSize / 2
sourceY(img, uv, cropSize) == centerY(img, uv) - (Sub \div 2) * cropSize

\* Math.max(0, Math.min(sourceX, img.width - cropSize))
clampedSourceX(img, uv, cropSize) ==
    Max(0, Min(sourceX(img, uv, cropSize), Sub * (img.width - cropSize)))

\* Math.max(0, Math.min(sourceY, img.height - cropSize))
clampedSourceY(img, uv, cropSize) ==
    Max(0, Min(sourceY(img, uv, cropSize), Sub * (img.height - cropSize)))

\* the crop drawn by img.onload: ctx.drawImage(img, clampedSourceX,
\* clampedSourceY, cropSize, cropSize, 0, 0, cropSize, cropSize)
cropImageFromUV(img, uv, cropSize) ==
    [uv |-> uv, img |-> img,
     centerX |-> centerX(img, uv), centerY |-> centerY(img, uv),
     x |-> clampedSourceX(img, uv, cropSize), y |-> clampedSourceY(img, uv, cropSize),
     width |-> Sub * cropSize, height |-> Sub * cropSize]

UVs == (0..UVDen) \X (0..UVDen)

\* mode buttons: onClick={() => setMode("navigate")}, onClick={() => setMode("select")}
UV_setMode(m) ==
    /\ uvMode' = m
    /\ UNCHANGED <<isProcessing, hasSelected, uvImg, uvPending, uvCrop, uvSelectCalls>>
    /\ UNCHANGED notUV

\* `if (mode !== "select") return; if (isProcessing) return;`
ClickAccepted_ignoresProcessing(m, processing) == m = "select"
ClickAccepted(m, processing) == m = "select" /\ ~processing

\* SphereViewer.handleClick up to the await: ignored outside select mode and
\* while a crop is processing
SphereViewer_handleClick(uv) ==
    /\ ClickAccepted(uvMode, isProcessing)
    /\ uvSelectCalls < MaxEvents
    /\ isProcessing' = TRUE
    /\ uvPending' = Some(uv)
    /\ UNCHANGED <<uvMode, hasSelected, uvImg, uvCrop, uvSelectCalls>>
    /\ UNCHANGED notUV

\* img.onload of cropImageFromUV and the rest of handleClick: without a 2D
\* context the promise is rejected and the error logged; otherwise it
\* resolves and handleSelectProduct runs; finally setIsProcessing(false)
cropImageFromUV_onload(ctxOk) ==
    /\ uvPending # Null
    /\ IF ctxOk
       THEN /\ uvCrop' = Some(cropImageFromUV(uvImg, uvPending[1], CropSize))
            /\ hasSelected' = TRUE
            /\ uvSelectCalls' = uvSelectCalls + 1
       ELSE UNCHANGED <<uvCrop, hasSelected, uvSelectCalls>>
    /\ isProcessing' = FALSE
    /\ uvPending' = Null
    /\ UNCHANGED <<uvMode, uvImg>>
    /\ UNCHANGED notUV

\* img.onerror of cropImageFromUV: rejected, logged; finally setIsProcessing(false)
cropImageFromUV_onerror ==
    /\ uvPending # Null
    /\ isProcessing' = FALSE
    /\ uvPending' = Null
    /\ UNCHANGED <<uvMode, hasSelected, uvImg, uvCrop, uvSelectCalls>>
    /\ UNCHANGED notUV

\* setTimeout(() => setHasSelected(false), 2000)
hasSelected_timeout ==
    /\ hasSelected
    /\ hasSelected' = FALSE
    /\ UNCHANGED <<uvMode, isProcessing, uvImg, uvPending, uvCrop, uvSelectCalls>>
    /\ UNCHANGED notUV

\* natural sizes of the panorama
UVImages ==
    {[width |-> 4000, height |-> 2000], [width |-> 1024, height |-> 512],
     [width |-> 500, height |-> 500], [width |-> 400, height |-> 200]}

InitUV == SceneIdle /\ PageInit /\ VariantsInit /\ \E sz \in UVImages : UVInit(sz)

NextUV ==
    \/ \E m \in {"navigate", "select"} : UV_setMode(m)
    \/ \E uv \in UVs : SphereViewer_handleClick(uv)
    \/ \E ctxOk \in BOOLEAN : cropImageFromUV_onload(ctxOk)
    \/ cropImageFromUV_onerror
    \/ hasSelected_timeout

SpecUV == InitUV /\ [][NextUV]_vars

(***************************************************************************)
(* HomePage: generation, visual search and the product sheet               *)
(***************************************************************************)

\* values typed into the style input
Styles == {"", " ", "Scandinave cosy"}

\* style.trim()
Trim(s) == IF s = " " THEN "" ELSE s

\* const handleFileSelect = (file) => { setSelectedFile(file); }
\* (UploadDropzone, rendered while appState === "upload")
handleFileSelect ==
    /\ appState = "upload"
    /\ selectedFile' = Some("plan")
    /\ UNCHANGED <<appState, style, generatedImage, enhancedStyle, is360Format,
                   sheetOpen, products, isSearching, searchError, pageCroppedImage,
                   generating, searching>>
    /\ UNCHANGED pageHist
    /\ UNCHANGED notPage

\* const handleFileClear = () => { setSelectedFile(null); }
handleFileClear ==
    /\ appState = "upload"
    /\ selectedFile # Null
    /\ selectedFile' = Null
    /\ UNCHANGED <<appState, style, generatedImage, enhancedStyle, is360Format,
                   sheetOpen, products, isSearching, searchError, pageCroppedImage,
                   generating, searching>>
    /\ UNCHANGED pageHist
    /\ UNCHANGED notPage

\* onChange={(e) => setStyle(e.target.value)}, onClick={() => setStyle(suggestion)}
setStyle(s) ==
    /\ appState = "upload"
    /\ style' = s
    /\ UNCHANGED <<appState, selectedFile, generatedImage, enhancedStyle, is360Format,
                   sheetOpen, products, isSearching, searchError, pageCroppedImage,
                   generating, searching>>
    /\ UNCHANGED pageHist
    /\ UNCHANGED notPage

\* handleGenerate up to the await; the button is rendered while
\* appState === "upload" and `if (!selectedFile || !style.trim())` returns
handleGenerate ==
    /\ appState = "upload"
    /\ selectedFile # Null
    /\ Trim(style) # ""
    /\ nGenerate < MaxGenerations
    /\ appState' = "generating"
    /\ nGenerate' = nGenerate + 1
    /\ generating' = generating \cup {nGenerate + 1}
    /\ UNCHANGED <<selectedFile, style, generatedImage, enhancedStyle, is360Format,
                   sheetOpen, products, isSearching, searchError, pageCroppedImage,
                   searching>>
    /\ UNCHANGED <<nSearch, activeSearch, abandoned, outcomes>>
    /\ UNCHANGED notPage

\* generateFurnishedRoom call g settles and handleGenerate resumes:
\*   try { setGeneratedImage(response.image); setEnhancedStyle(...);
\*         setIs360Format(response.format === "equirectangular_360");
\*         setAppState("result") }
\*   catch { toast.error(...); setAppState("upload") }
generateFurnishedRoom_settled(g, ok, format) ==
    /\ g \in generating
    /\ generating' = generating \ {g}
    /\ IF ok
       THEN /\ generatedImage' = Some(g)
            /\ enhancedStyle' = Some(g)
            /\ is360Format' = (format = "equirectangular_360")
            /\ appState' = "result"
       ELSE /\ appState' = "upload"
            /\ format = "standard"
            /\ UNCHANGED <<generatedImage, enhancedStyle, is360Format>>
    /\ UNCHANGED <<selectedFile, style, sheetOpen, products, isSearching, searchError,
                   pageCroppedImage, searching>>
    /\ UNCHANGED pageHist
    /\ UNCHANGED notPage

\* HomePage.handleCropComplete up to the await (onSelectProduct of Scene360,
\* onCropComplete of ImageCropper, both rendered while
\* appState === "result" && generatedImage); the crop of call r is r
Page_handleCropComplete ==
    /\ appState = "result"
    /\ generatedImage # Null
    /\ nSearch < MaxSearches
    /\ pageCroppedImage' = Some(nSearch + 1)
    /\ sheetOpen' = TRUE
    /\ isSearching' = TRUE
    /\ searchError' = Null
    /\ products' = <<>>
    /\ searching' = searching \cup {nSearch + 1}
    /\ nSearch' = nSearch + 1
    /\ activeSearch' = Some(nSearch + 1)
    /\ UNCHANGED <<appState, selectedFile, style, generatedImage, enhancedStyle,
                   is360Format, generating>>
    /\ UNCHANGED <<nGenerate, abandoned, outcomes>>
    /\ UNCHANGED notPage

\* the Error of searchProducts for a response that is not ok:
\*   const error = await response.json().catch(() => ({ detail: "Search failed" }));
\*   throw new Error(error.detail || "Failed to search products")
\* request names the call that threw it
SearchFailure(r, detail) ==
    [isError |-> TRUE,
     message |-> IF detail # "" THEN detail ELSE "Failed to search products",
     request |-> r]

\* `detail` of the responses that are not ok
FailDetails == {"", "Search failed"}

\* how searchProducts call r can settle: a ShopResponse with no product or
\* with the products found for r, or a thrown Error
SearchOutcomes(r) ==
    {[ok |-> TRUE, products |-> <<>>], [ok |-> TRUE, products |-> <<r>>]}
    \cup {[ok |-> FALSE, error |-> SearchFailure(r, d)] : d \in FailDetails}

\* error instanceof Error ? error.message : "Échec de la recherche de produits"
SearchErrorMessage(e) ==
    [message |-> IF e.isError THEN e.message ELSE "Échec de la recherche de produits",
     request |-> e.request]

\* searchProducts call r settles and HomePage.handleCropComplete resumes:
\*   try { setProducts(response.products) }
\*   catch (error) { setSearchError(...) }
\*   finally { setIsSearching(false) }
searchProducts_settled(r, o) ==
    /\ r \in searching
    /\ searching' = searching \ {r}
    /\ outcomes' = outcomes \cup {[request |-> r, outcome |-> o]}
    /\ IF o.ok
       THEN /\ products' = o.products
            /\ UNCHANGED searchError
       ELSE /\ searchError' = Some(SearchErrorMessage(o.error))
            /\ UNCHANGED products
    /\ isSearching' = FALSE
    /\ UNCHANGED <<appState, selectedFile, style, generatedImage, enhancedStyle,
                   is360Format, sheetOpen, pageCroppedImage, generating>>
    /\ UNCHANGED <<nGenerate, nSearch, activeSearch, abandoned>>
    /\ UNCHANGED notPage

\* handleReset (logo and "new project" buttons): setAppState("upload");
\* setSelectedFile(null); setStyle(""); setGeneratedImage(null);
\* setEnhancedStyle(null); setIs360Format(false); setProducts([]);
\* setCroppedImage(null)
handleReset ==
    /\ appState' = "upload"
    /\ selectedFile' = Null
    /\ style' = ""
    /\ generatedImage' = Null
    /\ enhancedStyle' = Null
    /\ is360Format' = FALSE
    /\ products' = <<>>
    /\ pageCroppedImage' = Null
    /\ activeSearch' = Null
    /\ abandoned' = abandoned \cup generating
    /\ UNCHANGED <<sheetOpen, isSearching, searchError, generating, searching>>
    /\ UNCHANGED <<nGenerate, nSearch, outcomes>>
    /\ UNCHANGED notPage

\* <ProductSheet onOpenChange={setSheetOpen}>: the Sheet is controlled and
\* has no trigger, so it reports only that the user closed it
setSheetOpen(open) ==
    /\ sheetOpen # open
    /\ sheetOpen' = open
    /\ UNCHANGED <<appState, selectedFile, style, generatedImage, enhancedStyle,
                   is360Format, products, isSearching, searchError, pageCroppedImage,
                   generating, searching>>
    /\ UNCHANGED pageHist
    /\ UNCHANGED notPage

\* the one block of ProductSheet that is rendered below the header:
\*   {isLoading && ...} {error && !isLoading && ...}
\*   {!isLoading && !error && products.length === 0 && ...}
\*   {!isLoading && !error && products.length > 0 && ...}
\* (an empty string is falsy)
ProductSheet(prods, loading, error) ==
    IF loading THEN "loading"
    ELSE IF error # Null /\ error[1].message # "" THEN "error"
    ELSE IF Len(prods) = 0 THEN "empty"
    ELSE "products"

NextPage ==
    \/ handleFileSelect
    \/ handleFileClear
    \/ \E s \in Styles : setStyle(s)
    \/ handleGenerate
    \/ \E g \in generating : \E ok \in BOOLEAN :
          \E format \in {"equirectangular_360", "standard"} :
              generateFurnishedRoom_settled(g, ok, format)
    \/ Page_handleCropComplete
    \/ \E r \in searching : \E o \in SearchOutcomes(r) : searchProducts_settled(r, o)
    \/ handleReset
    \/ setSheetOpen(FALSE)

SpecPage == Init /\ [][NextPage]_vars

(***************************************************************************)
(* Scene360, counter-triggered variant: the Canvas is rendered only while  *)
(* showSelection is false, CanvasCapture captures when its triggerCapture  *)
(* counter differs from the one it served last                             *)
(***************************************************************************)

\* `{!showSelection && (<> ... <Canvas> <Suspense fallback={null}>
\* <SphereViewer/> <CanvasCapture/> </Suspense> ... </Canvas> </>)}`:
\* CanvasCapture is mounted while the Canvas is rendered and the texture of
\* its Suspense sibling SphereViewer is there
CTCaptureMounted(show, tex) == ~show /\ tex = "loaded"

\* onClick of the select button, `disabled={isCapturing}`
handleSelectionClick ==
    /\ ~isCapturing
    /\ ctSelectClicks < MaxEvents
    /\ isCapturing' = TRUE
    /\ captureCounter' = captureCounter + 1
    /\ ctSelectClicks' = ctSelectClicks + 1
    /\ UNCHANGED <<showSelection, ctCapturedImage, ctIsLoading, ctTexture,
                   lastTrigger, ctDeps, ctTimers, ctCamera, ctSelectCalls,
                   ctCaptureCalls>>
    /\ UNCHANGED notCT

\* onClick of the navigation button, `disabled={isCapturing}`; the Canvas
\* and CanvasCapture mount again, the texture comes from useLoader's cache
handleNavigationClick ==
    /\ ~isCapturing
    /\ showSelection' = FALSE
    /\ UNCHANGED <<ctCapturedImage, captureCounter, isCapturing, ctIsLoading,
                   ctTexture, lastTrigger, ctDeps, ctTimers, ctCamera,
                   ctSelectCalls, ctSelectClicks, ctCaptureCalls>>
    /\ UNCHANGED notCT

\* useLoader resolves: SphereViewer and CanvasCapture mount
CT_TextureLoaded ==
    /\ ctTexture = "loading"
    /\ ctTexture' = "loaded"
    /\ UNCHANGED <<showSelection, ctCapturedImage, captureCounter, isCapturing,
                   ctIsLoading, lastTrigger, ctDeps, ctTimers, ctCamera,
                   ctSelectCalls, ctSelectClicks, ctCaptureCalls>>
    /\ UNCHANGED notCT

\* img.onload / img.onerror of the preload effect: setIsLoading(false)
CT_Preload_settled ==
    /\ ctIsLoading
    /\ ctIsLoading' = FALSE
    /\ UNCHANGED <<showSelection, ctCapturedImage, captureCounter, isCapturing,
                   ctTexture, lastTrigger, ctDeps, ctTimers, ctCamera,
                   ctSelectCalls, ctSelectClicks, ctCaptureCalls>>
    /\ UNCHANGED notCT

\* `triggerCapture > 0 && triggerCapture !== lastTrigger.current`
ShouldCapture(trigger, last) == trigger > 0 /\ trigger # last

\* the effect of CanvasCapture, run after mount and after every render
\* with another triggerCapture
CT_CanvasCapture_effect ==
    /\ CTCaptureMounted(showSelection, ctTexture)
    /\ ctDeps # Some(captureCounter)
    /\ ctDeps' = Some(captureCounter)
    /\ IF ShouldCapture(captureCounter, lastTrigger)
       THEN /\ ctCaptureCalls + ctTimers < MaxCaptures
            /\ lastTrigger' = captureCounter
            /\ ctTimers' = ctTimers + 1
       ELSE UNCHANGED <<lastTrigger, ctTimers>>
    /\ UNCHANGED <<showSelection, ctCapturedImage, captureCounter, isCapturing,
                   ctIsLoading, ctTexture, ctCamera, ctSelectCalls,
                   ctSelectClicks, ctCaptureCalls>>
    /\ UNCHANGED notCT

\* the setTimeout callback of CanvasCapture: render, toDataURL, onCapture =
\* handleCapture; showSelection = true takes the Canvas out of the tree, so
\* CanvasCapture unmounts and its ref is gone, and the next Canvas starts
\* with the camera of its `camera` prop
CT_timeout ==
    /\ ctTimers > 0
    /\ ctTimers' = ctTimers - 1
    /\ ctCaptureCalls' = ctCaptureCalls + 1
    /\ ctCapturedImage' = Some([seq |-> ctCaptureCalls + 1,
                                clicks |-> ctSelectClicks,
                                view |-> ctCamera])
    /\ ctCamera' = 0
    /\ isCapturing' = FALSE
    /\ showSelection' = TRUE
    /\ lastTrigger' = 0
    /\ ctDeps' = Null
    /\ UNCHANGED <<captureCounter, ctIsLoading, ctTexture, ctSelectCalls,
                   ctSelectClicks>>
    /\ UNCHANGED notCT

\* the user drags the Canvas: OrbitControls (no `enabled` prop) turns the
\* camera
CT_OrbitControls_rotate(d) ==
    /\ ~showSelection
    /\ ctCamera' = (ctCamera + d) % NumViews
    /\ UNCHANGED <<showSelection, ctCapturedImage, captureCounter, isCapturing,
                   ctIsLoading, ctTexture, lastTrigger, ctDeps, ctTimers,
                   ctSelectCalls, ctSelectClicks, ctCaptureCalls>>
    /\ UNCHANGED notCT

\* `{showSelection && capturedImage && (... <ReactCrop onComplete=
\* {handleCropComplete}> ...)}`: a crop that passes the size threshold is
\* dispatched to onSelectProduct
CT_handleCropComplete ==
    /\ showSelection
    /\ ctCapturedImage # Null
    /\ ctSelectCalls < MaxEvents
    /\ ctSelectCalls' = ctSelectCalls + 1
    /\ UNCHANGED <<showSelection, ctCapturedImage, captureCounter, isCapturing,
                   ctIsLoading, ctTexture, lastTrigger, ctDeps, ctTimers,
                   ctCamera, ctSelectClicks, ctCaptureCalls>>
    /\ UNCHANGED notCT

NextCT ==
    \/ handleSelectionClick
    \/ handleNavigationClick
    \/ CT_TextureLoaded
    \/ CT_Preload_settled
    \/ CT_CanvasCapture_effect
    \/ CT_timeout
    \/ \E d \in 1 .. NumViews - 1 : CT_OrbitControls_rotate(d)
    \/ CT_handleCropComplete

SpecCT == Init /\ [][NextCT]_vars

(***************************************************************************)
(* Scene360, variant with the mode-conditional Canvas: the content area    *)
(* is `mode === "navigate" ? <Canvas .../> : capturedImage &&              *)
(* <SelectionView .../>`                                                   *)
(***************************************************************************)

\* CanvasCapture is mounted while the Canvas is rendered and the texture of
\* its Suspense sibling SphereViewer is there
MCCaptureMounted(m, tex) == m = "navigate" /\ tex = "loaded"

\* `capturedImage && (<SelectionView .../>)` in the select branch
SelectionViewShown(m, img) == m = "select" /\ img # Null

\* onClick of the select button: setMode("select"),
\* setCaptureRequested(true); the next render has no Canvas, so
\* CanvasCapture is unmounted before any effect sees the request
MC_handleSelectMode ==
    /\ mcMode = "navigate" => mcRequests < MaxEvents
    /\ mcMode' = "select"
    /\ mcCaptureRequested' = TRUE
    /\ mcDeps' = Null
    /\ mcCamera' = 0
    /\ mcRequests' = IF mcMode = "navigate" THEN mcRequests + 1 ELSE mcRequests
    /\ UNCHANGED <<mcCapturedImage, mcIsLoading, mcTexture, mcCaptureCalls,
                   mcSelectCalls>>
    /\ UNCHANGED notMC

\* onClick of the navigation button: setMode("navigate"),
\* setCapturedImage(null); coming from select the Canvas mounts again, the
\* texture comes from useLoader's cache
handleNavigateMode ==
    /\ mcMode' = "navigate"
    /\ mcCapturedImage' = Null
    /\ UNCHANGED <<mcCaptureRequested, mcIsLoading, mcTexture, mcDeps, mcCamera,
                   mcRequests, mcCaptureCalls, mcSelectCalls>>
    /\ UNCHANGED notMC

\* useLoader resolves: SphereViewer and CanvasCapture mount
MC_TextureLoaded ==
    /\ mcTexture = "loading"
    /\ mcTexture' = "loaded"
    /\ UNCHANGED <<mcMode, mcCapturedImage, mcCaptureRequested, mcIsLoading,
                   mcDeps, mcCamera, mcRequests, mcCaptureCalls, mcSelectCalls>>
    /\ UNCHANGED notMC

\* img.onload / img.onerror of the preload effect: setIsLoading(false)
MC_Preload_settled ==
    /\ mcIsLoading
    /\ mcIsLoading' = FALSE
    /\ UNCHANGED <<mcMode, mcCapturedImage, mcCaptureRequested, mcTexture,
                   mcDeps, mcCamera, mcRequests, mcCaptureCalls, mcSelectCalls>>
    /\ UNCHANGED notMC

\* the effect of CanvasCapture, run after mount and after every render
\* with another captureRequested: render, toDataURL, onCapture =
\* handleCapture, onCaptureComplete = handleCaptureComplete
MC_CanvasCapture_effect ==
    /\ MCCaptureMounted(mcMode, mcTexture)
    /\ mcDeps # Some(mcCaptureRequested)
    /\ mcDeps' = Some(mcCaptureRequested)
    /\ IF mcCaptureRequested
       THEN /\ mcCaptureCalls < MaxCaptures
            /\ mcCapturedImage' = Some([seq |-> mcCaptureCalls + 1,
                                        request |-> mcRequests,
                                        view |-> mcCamera])
            /\ mcCaptureCalls' = mcCaptureCalls + 1
            /\ mcCaptureRequested' = FALSE
       ELSE UNCHANGED <<mcCapturedImage, mcCaptureCalls, mcCaptureRequested>>
    /\ UNCHANGED <<mcMode, mcIsLoading, mcTexture, mcCamera, mcRequests,
                   mcSelectCalls>>
    /\ UNCHANGED notMC

\* the user drags the Canvas: OrbitControls (no `enabled` prop) turns the
\* camera
MC_OrbitControls_rotate(d) ==
    /\ mcMode = "navigate"
    /\ mcCamera' = (mcCamera + d) % NumViews
    /\ UNCHANGED <<mcMode, mcCapturedImage, mcCaptureRequested, mcIsLoading,
                   mcTexture, mcDeps, mcRequests, mcCaptureCalls, mcSelectCalls>>
    /\ UNCHANGED notMC

\* SelectionView: a crop that passes the size threshold reaches
\* Scene360.handleCropComplete, which calls onSelectProduct
MC_handleCropComplete ==
    /\ SelectionViewShown(mcMode, mcCapturedImage)
    /\ mcSelectCalls < MaxEvents
    /\ mcSelectCalls' = mcSelectCalls + 1
    /\ UNCHANGED <<mcMode, mcCapturedImage, mcCaptureRequested, mcIsLoading,
                   mcTexture, mcDeps, mcCamera, mcRequests, mcCaptureCalls>>
    /\ UNCHANGED notMC

NextMC ==
    \/ MC_handleSelectMode
    \/ handleNavigateMode
    \/ MC_TextureLoaded
    \/ MC_Preload_settled
    \/ MC_CanvasCapture_effect
    \/ \E d \in 1 .. NumViews - 1 : MC_OrbitControls_rotate(d)
    \/ MC_handleCropComplete

SpecMC == Init /\ [][NextMC]_vars

\* React runs the effects of a committed render and the loader settles,
\* whatever the user does; the user's clicks are under no obligation
SpecMCFair ==
    SpecMC /\ WF_vars(MC_CanvasCapture_effect) /\ WF_vars(MC_TextureLoaded)

(***************************************************************************)
(* Scene360, three-state variant: mode is navigate, capture or select; the *)
(* Canvas is rendered in navigate and capture, CanvasCapture captures      *)
(* while shouldCapture = (mode === "capture")                              *)
(***************************************************************************)

\* `{(mode === "navigate" || mode === "capture") && (... <Canvas> ...)}`
TSCanvasMounted(m) == m \in {"navigate", "capture"}

\* CanvasCapture is mounted while the Canvas is rendered and the texture of
\* its Suspense sibling SphereViewer is there
TSCaptureMounted(m, tex) == TSCanvasMounted(m) /\ tex = "loaded"

\* `shouldCapture={mode === "capture"}`
shouldCapture(m) == m = "capture"

\* `<OrbitControls enabled={mode === "navigate"} .../>` inside the Canvas
TSOrbitEnabled(m) == TSCanvasMounted(m) /\ m = "navigate"

\* select button, onClick: `if (mode === "navigate")`
TSSelectAllowed_anyMode(m) == TRUE
TSSelectAllowed(m) == m = "navigate"

\* onClick of the select button, `disabled={mode === "capture"}`
TS_SelectClick ==
    /\ tsMode # "capture"
    /\ IF TSSelectAllowed(tsMode)
       THEN /\ tsEntries < MaxEvents
            /\ tsMode' = "capture"
            /\ tsEntries' = tsEntries + 1
            /\ tsCapturesThisEntry' = 0
       ELSE UNCHANGED <<tsMode, tsEntries, tsCapturesThisEntry>>
    /\ UNCHANGED <<tsCapturedImage, tsIsLoading, tsTexture, hasCaptured, tsDeps,
                   tsCamera, tsCaptureCalls, tsSelectCalls>>
    /\ UNCHANGED notTS

\* onClick of the navigation button: setMode("navigate"),
\* setCapturedImage(null); coming from select the Canvas mounts again
TS_NavigationClick ==
    /\ tsMode' = "navigate"
    /\ tsCapturedImage' = Null
    /\ UNCHANGED <<tsIsLoading, tsTexture, hasCaptured, tsDeps, tsCamera,
                   tsEntries, tsCaptureCalls, tsCapturesThisEntry, tsSelectCalls>>
    /\ UNCHANGED notTS

\* useLoader resolves: SphereViewer and CanvasCapture mount
TS_TextureLoaded ==
    /\ tsTexture = "loading"
    /\ tsTexture' = "loaded"
    /\ UNCHANGED <<tsMode, tsCapturedImage, tsIsLoading, hasCaptured, tsDeps,
                   tsCamera, tsEntries, tsCaptureCalls, tsCapturesThisEntry,
                   tsSelectCalls>>
    /\ UNCHANGED notTS

\* img.onload / img.onerror of the preload effect: setIsLoading(false)
TS_Preload_settled ==
    /\ tsIsLoading
    /\ tsIsLoading' = FALSE
    /\ UNCHANGED <<tsMode, tsCapturedImage, tsTexture, hasCaptured, tsDeps,
                   tsCamera, tsEntries, tsCaptureCalls, tsCapturesThisEntry,
                   tsSelectCalls>>
    /\ UNCHANGED notTS

\* the effect of CanvasCapture, run after mount and after every render
\* with another shouldCapture.  A capture calls onCapture = handleCapture:
\* setCapturedImage(dataUrl), setMode("select"), and the select render has
\* no Canvas, so CanvasCapture unmounts and its ref is gone
TS_CanvasCapture_effect ==
    /\ TSCaptureMounted(tsMode, tsTexture)
    /\ tsDeps # Some(shouldCapture(tsMode))
    /\ IF shouldCapture(tsMode) /\ ~hasCaptured
       THEN /\ tsCapturedImage' = Some([seq |-> tsCaptureCalls + 1,
                                        entry |-> tsEntries,
                                        view |-> tsCamera])
            /\ tsMode' = "select"
            /\ tsCaptureCalls' = tsCaptureCalls + 1
            /\ tsCapturesThisEntry' = tsCapturesThisEntry + 1
            /\ hasCaptured' = FALSE
            /\ tsDeps' = Null
            /\ tsCamera' = 0
       ELSE /\ tsDeps' = Some(shouldCapture(tsMode))
            /\ hasCaptured' = IF ~shouldCapture(tsMode) THEN FALSE ELSE hasCaptured
            /\ UNCHANGED <<tsCapturedImage, tsMode, tsCaptureCalls,
                           tsCapturesThisEntry, tsCamera>>
    /\ UNCHANGED <<tsIsLoading, tsTexture, tsEntries, tsSelectCalls>>
    /\ UNCHANGED notTS

\* the user drags the Canvas: OrbitControls turns the camera when enabled
TS_OrbitControls_rotate(d) ==
    /\ TSOrbitEnabled(tsMode)
    /\ tsCamera' = (tsCamera + d) % NumViews
    /\ UNCHANGED <<tsMode, tsCapturedImage, tsIsLoading, tsTexture, hasCaptured,
                   tsDeps, tsEntries, tsCaptureCalls, tsCapturesThisEntry,
                   tsSelectCalls>>
    /\ UNCHANGED notTS

\* `{mode === "select" && capturedImage && (... <ReactCrop onComplete=
\* {handleCropComplete}> ...)}`: a crop that passes the size threshold is
\* dispatched to onSelectProduct
TS_handleCropComplete ==
    /\ tsMode = "select"
    /\ tsCapturedImage # Null
    /\ tsSelectCalls < MaxEvents
    /\ tsSelectCalls' = tsSelectCalls + 1
    /\ UNCHANGED <<tsMode, tsCapturedImage, tsIsLoading, tsTexture, hasCaptured,
                   tsDeps, tsCamera, tsEntries, tsCaptureCalls,
                   tsCapturesThisEntry>>
    /\ UNCHANGED notTS

NextTS ==
    \/ TS_SelectClick
    \/ TS_NavigationClick
    \/ TS_TextureLoaded
    \/ TS_Preload_settled
    \/ TS_CanvasCapture_effect
    \/ \E d \in 1 .. NumViews - 1 : TS_OrbitControls_rotate(d)
    \/ TS_handleCropComplete

SpecTS == Init /\ [][NextTS]_vars

(***************************************************************************)
(* Scene360, click-marker variant: a click on the sphere leaves a marker   *)
(* and crops around the hit                                                *)
(***************************************************************************)

\* accepted clicks explored
MaxMarkerClicks == 6

\* points of the sphere the user clicks
MarkerPoints == {"sofa", "lamp"}

\* prev.slice(-n)
SliceLast(prev, n) ==
    IF Len(prev) <= n THEN prev ELSE SubSeq(prev, Len(prev) - n + 1, Len(prev))

\* `setMarkers((prev) => [...prev.slice(-4), { position, id }])`
AppendMarker_sliceFive(prev, marker) == SliceLast(prev, 5) \o <<marker>>
AppendMarker(prev, marker) == SliceLast(prev, 4) \o <<marker>>

\* onClick of the sphere mesh: SphereViewer.handleClick up to the await.
\* `if (isProcessing) return`; a hit without uv or point is logged and
\* ignored; otherwise the marker is added and the crop starts
MK_handleClick(point, hasUV) ==
    /\ mkTexture = "loaded"
    /\ ~mkIsProcessing
    /\ IF hasUV
       THEN /\ Len(mkAccepted) < MaxMarkerClicks
            /\ LET marker == [position |-> point, id |-> Len(mkAccepted) + 1]
               IN  /\ markers' = AppendMarker(markers, marker)
                   /\ mkAccepted' = Append(mkAccepted, marker)
            /\ mkIsProcessing' = TRUE
            /\ mkPending' = Some(point)
       ELSE UNCHANGED <<markers, mkAccepted, mkIsProcessing, mkPending>>
    /\ UNCHANGED <<mkIsLoading, mkTexture, mkSelectCalls>>
    /\ UNCHANGED notMK

\* cropImageFromUV settles and handleClick resumes: onSelectProduct on
\* success, console.error on failure, finally setIsProcessing(false)
MK_cropImageFromUV_settled(ok) ==
    /\ mkPending # Null
    /\ mkSelectCalls' = IF ok THEN mkSelectCalls + 1 ELSE mkSelectCalls
    /\ mkIsProcessing' = FALSE
    /\ mkPending' = Null
    /\ UNCHANGED <<markers, mkIsLoading, mkTexture, mkAccepted>>
    /\ UNCHANGED notMK

\* useLoader resolves: the sphere mesh mounts
MK_TextureLoaded ==
    /\ mkTexture = "loading"
    /\ mkTexture' = "loaded"
    /\ UNCHANGED <<markers, mkIsProcessing, mkIsLoading, mkPending, mkAccepted,
                   mkSelectCalls>>
    /\ UNCHANGED notMK

\* img.onload / img.onerror of the preload effect: setIsLoading(false)
MK_Preload_settled ==
    /\ mkIsLoading
    /\ mkIsLoading' = FALSE
    /\ UNCHANGED <<markers, mkIsProcessing, mkTexture, mkPending, mkAccepted,
                   mkSelectCalls>>
    /\ UNCHANGED notMK

NextMK ==
    \/ \E point \in MarkerPoints : \E hasUV \in BOOLEAN : MK_handleClick(point, hasUV)
    \/ \E ok \in BOOLEAN : MK_cropImageFromUV_settled(ok)
    \/ MK_TextureLoaded
    \/ MK_Preload_settled

SpecMK == Init /\ [][NextMK]_vars

(***************************************************************************)
(* Properties                                                              *)
(***************************************************************************)

\* the last onComplete event passed the size threshold and got a context,
\* so croppedImage is the crop of lastC
LastAccepted ==
    /\ lastC # Null
    /\ lastC[1].ctxOk
    /\ lastC[1].c.width > 20 /\ lastC[1].c.height > 20

\* k * a lies within t / 2^51 of the integer t
Close(k, a, t) ==
    LET lhs == NumMulInt(8 * k, a)
        mid == FromInt(8 * t)
        eps == <<0, 0, t \div LimbBase, t % LimbBase, 0>>
    IN  NumLe(lhs, NumAdd(mid, eps)) /\ NumLe(mid, NumAdd(lhs, eps))

\* C1 (clamping law): every crop produced by handleCropComplete has its
\* source rectangle inside the source raster: x >= 0, y >= 0,
\* x + w <= naturalWidth and y + h <= naturalHeight.
C1_ClampingLaw ==
    croppedImage # Null =>
        LET r == croppedImage[1].source
            img == image[1]
        IN  /\ NumLe(FromInt(0), r.x)
            /\ NumLe(FromInt(0), r.y)
            /\ NumLe(NumAdd(r.x, r.width), FromInt(img.naturalWidth))
            /\ NumLe(NumAdd(r.y, r.height), FromInt(img.naturalHeight))

\* C2: an onComplete event whose rectangle has width <= 20 or height <= 20
\* calls nothing and changes nothing: no onSelectProduct call, no crop, and
\* mode, showSelectionOverlay, capturedImage and captureRequested stay as
\* they were.
C2_BelowThresholdIgnored ==
    [][(/\ nComplete' # nComplete
        /\ (lastC'[1].c.width <= 20 \/ lastC'[1].c.height <= 20))
       => UNCHANGED <<mode, showSelectionOverlay, capturedImage, captureRequested,
                      selectCalls, croppedImage>>]_vars

\* a selection of width exactly 20 was completed in select mode with a
\* context available, and nothing was dispatched
C2_Witness ==
    /\ nComplete = 1
    /\ lastC[1].c.width = 20 /\ lastC[1].c.height > 20 /\ lastC[1].ctxOk
    /\ selectCalls = 0 /\ croppedImage = Null
    /\ mode = "select" /\ showSelectionOverlay

\* C3 as stated: for an accepted selection the source rectangle is exactly
\* (x, y, w, h) scaled by naturalWidth/width and naturalHeight/height, and
\* the output canvas has exactly the scaled size.
C3_ExactScaling ==
    LastAccepted =>
        LET c == lastC[1].c
            img == image[1]
            r == croppedImage[1].source
            cv == croppedImage[1].canvas
        IN  /\ NumMulInt(img.width, r.x) = FromInt(c.x * img.naturalWidth)
            /\ NumMulInt(img.height, r.y) = FromInt(c.y * img.naturalHeight)
            /\ NumMulInt(img.width, r.width) = FromInt(c.width * img.naturalWidth)
            /\ NumMulInt(img.height, r.height) = FromInt(c.height * img.naturalHeight)
            /\ cv.width * img.width = c.width * img.naturalWidth
            /\ cv.height * img.height = c.height * img.naturalHeight

\* C3 (amended): the source rectangle is the scaled selection up to binary64
\* rounding (within one part in 2^51), exact when the displayed size divides
\* the natural size; the canvas size is the integer part of the scaled
\* width and height; natural 4000x2000 displayed 800x400 with selection
\* {100,100,100,100} gives {500,500,500,500} on a 500x500 canvas.
C3_ScalingUpToRounding ==
    LastAccepted =>
        LET c == lastC[1].c
            img == image[1]
            r == croppedImage[1].source
            cv == croppedImage[1].canvas
        IN  /\ Close(img.width, r.x, c.x * img.naturalWidth)
            /\ Close(img.height, r.y, c.y * img.naturalHeight)
            /\ Close(img.width, r.width, c.width * img.naturalWidth)
            /\ Close(img.height, r.height, c.height * img.naturalHeight)
            /\ img.naturalWidth % img.width = 0 =>
                   /\ r.x = FromInt(c.x * (img.naturalWidth \div img.width))
                   /\ r.width = FromInt(c.width * (img.naturalWidth \div img.width))
            /\ img.naturalHeight % img.height = 0 =>
                   /\ r.y = FromInt(c.y * (img.naturalHeight \div img.height))
                   /\ r.height = FromInt(c.height * (img.naturalHeight \div img.height))
            /\ NumLe(FromInt(cv.width), r.width) /\ ~NumLe(FromInt(cv.width + 1), r.width)
            /\ NumLe(FromInt(cv.height), r.height) /\ ~NumLe(FromInt(cv.height + 1), r.height)
            /\ (img = Img(4000, 2000, 800, 400) /\ c = Rect(100, 100, 100, 100)) =>
                   /\ r = [x |-> FromInt(500), y |-> FromInt(500),
                           width |-> FromInt(500), height |-> FromInt(500)]
                   /\ cv = [width |-> 500, height |-> 500]

\* the scenario of the claim has been cropped
C3_Witness ==
    /\ LastAccepted
    /\ image[1] = Img(4000, 2000, 800, 400)
    /\ lastC[1].c = Rect(100, 100, 100, 100)
    /\ croppedImage[1].source.x = FromInt(500)
    /\ croppedImage[1].canvas.width = 500

\* C4 (round trip): an accepted selection of the whole displayed raster,
\* (0, 0, width, height), yields the source rectangle
\* (0, 0, naturalWidth, naturalHeight).
C4_FullSelectionRoundTrip ==
    (LastAccepted /\ lastC[1].c = Rect(0, 0, image[1].width, image[1].height)) =>
        croppedImage[1].source =
            [x |-> FromInt(0), y |-> FromInt(0),
             width |-> FromInt(image[1].naturalWidth),
             height |-> FromInt(image[1].naturalHeight)]

C6_UVToPixel ==
    uvCrop # Null =>
        LET r == uvCrop[1]
            W == r.img.width
            H == r.img.height
        IN  /\ UVDen * r.centerX = Sub * r.uv[1] * W
            /\ UVDen * r.centerY = Sub * (UVDen - r.uv[2]) * H
            /\ r.uv = <<0, 0>> => (r.centerX = 0 /\ r.centerY = Sub * H)
            /\ r.uv = <<UVDen, UVDen>> => (r.centerX = Sub * W /\ r.centerY = 0)

\* a click at uv = (0,0) on the 4000x2000 panorama was cropped around
\* the pixel (0, 2000)
C6_Witness ==
    /\ uvCrop # Null
    /\ uvCrop[1].uv = <<0, 0>>
    /\ uvCrop[1].img = [width |-> 4000, height |-> 2000]
    /\ uvCrop[1].centerX = 0 /\ uvCrop[1].centerY = Sub * 2000

\* the cropSize square centred on the hit of crop r fits inside the image
SquareFits(r) ==
    LET cx == Sub * r.uv[1] * r.img.width
        cy == Sub * (UVDen - r.uv[2]) * r.img.height
        half == (Sub \div 2) * 500 * UVDen
    IN  /\ cx - half >= 0 /\ cx + half <= Sub * UVDen * r.img.width
        /\ cy - half >= 0 /\ cy + half <= Sub * UVDen * r.img.height

\* C7: whenever the 500 px square centred on (uv.x * W, (1 - uv.y) * H) fits
\* inside the image, the rectangle drawn is (centerX - 250, centerY - 250,
\* 500, 500); uv = (0.5, 0.5) on 4000x2000 gives {1750, 750, 500, 500}.
C7_CentredOnHit ==
    (uvCrop # Null /\ SquareFits(uvCrop[1])) =>
        LET r == uvCrop[1]
        IN  /\ UVDen * r.x = Sub * r.uv[1] * r.img.width - Sub * UVDen * 250
            /\ UVDen * r.y = Sub * (UVDen - r.uv[2]) * r.img.height - Sub * UVDen * 250
            /\ r.width = Sub * 500 /\ r.height = Sub * 500
            /\ (2 * r.uv[1] = UVDen /\ 2 * r.uv[2] = UVDen
                    /\ r.img = [width |-> 4000, height |-> 2000]) =>
                   (r.x = Sub * 1750 /\ r.y = Sub * 750)

\* the scenario of the claim has been cropped
C7_Witness ==
    /\ uvCrop # Null
    /\ 2 * uvCrop[1].uv[1] = UVDen /\ 2 * uvCrop[1].uv[2] = UVDen
    /\ uvCrop[1].img = [width |-> 4000, height |-> 2000]
    /\ SquareFits(uvCrop[1])
    /\ uvCrop[1].x = Sub * 1750 /\ uvCrop[1].y = Sub * 750

\* C8: for every uv in [0,1] x [0,1] and every natural image size, the
\* rectangle drawn by cropImageFromUV lies inside the image.
C8_ClampedToBounds ==
    uvCrop # Null =>
        LET r == uvCrop[1]
        IN  /\ r.x >= 0 /\ r.y >= 0
            /\ r.x + r.width <= Sub * r.img.width
            /\ r.y + r.height <= Sub * r.img.height

\* C9: between each navigate -> select transition and the following return
\* to navigate, onCapture is invoked exactly once: never more than once
\* while in select, and once by the time navigate is re-entered.
C9_ExactlyOneCapturePerEntry ==
    [][/\ mode' = "select" => capturesThisEntry' <= 1
       /\ (mode = "select" /\ mode' = "navigate") => capturesThisEntry = 1]_vars

\* C10: the frame of every capture shows the camera as it was when
\* handleSelectMode was (last) invoked.
C10_FrameShowsRequestedCamera ==
    [][captureCount' # captureCount => capturedImage'[1].view = camAtRequest]_vars

\* C11: while captureRequested stays true, further handleSelectMode calls
\* fire no capture; a capture happens only for a pending request, one at a
\* time, and it ends that request; a pending request ends in no other way.
\* So each pending request gets exactly one capture however often
\* handleSelectMode was repeated meanwhile.
C11_OneCapturePerPendingRequest ==
    [][/\ (captureRequested /\ captureRequested') => captureCount' = captureCount
       /\ captureCount' # captureCount
          => (captureRequested /\ ~captureRequested' /\ captureCount' = captureCount + 1)
       /\ (captureRequested /\ ~captureRequested') => captureCount' = captureCount + 1]_vars

\* handleSelectMode was repeated twice while the first request was pending,
\* and that request has been served by one capture
C11_Witness ==
    /\ selectsWhilePending >= 2
    /\ ~captureRequested
    /\ captureCount = 1
    /\ capturedImage # Null

\* C12: in every state of the mounted Scene360 the OrbitControls are
\* disabled when mode = select and enabled when mode = navigate.
C12_OrbitFollowsMode ==
    Mounted => /\ mode = "select" => ~OrbitEnabled
               /\ mode = "navigate" => OrbitEnabled

\* C13: once the read-back of a requested capture has failed (gl.render or
\* toDataURL threw), mode = navigate, the selection overlay is not shown and
\* no captured frame is stored.
C13_CaptureFailureKeepsNavigate ==
    thrown = Some("capture") =>
        /\ mode = "navigate"
        /\ ~showSelectionOverlay
        /\ capturedImage = Null

\* C14: whenever the SelectionOverlay is rendered, capturedImage is
\* non-null and is the frame of the most recent capture, and in select mode
\* the capture of the current select entry has finished, so no rectangle
\* can be completed before it.
C14_CapturePrecedesSelection ==
    (Mounted /\ OverlayRendered(showSelectionOverlay, capturedImage)) =>
        /\ capturedImage # Null
        /\ capturedImage[1].seq = captureCount
        /\ mode = "select" => capturesThisEntry >= 1

\* C15: in every state with mode = navigate and no capture in progress,
\* capturedImage is null: the frame is discarded by every return from
\* select to navigate.
C15_FrameDiscardedOnExit ==
    (Mounted /\ mode = "navigate" /\ ~captureRequested) => capturedImage = Null

\* how the settled searchProducts call r ended
OutcomeOf(r) == (CHOOSE x \in outcomes : x.request = r).outcome

\* C16 (latest request wins): once every searchProducts call has settled,
\* in whatever order and with whatever results, products and searchError
\* are those of the search of the latest selection: its products and no
\* error if it succeeded, no products and its error if it failed.
C16_LatestRequestWins ==
    (searching = {} /\ activeSearch # Null) =>
        LET o == OutcomeOf(activeSearch[1])
        IN  IF o.ok
            THEN products = o.products /\ searchError = Null
            ELSE products = <<>> /\ searchError = Some(SearchErrorMessage(o.error))

\* C17: a searchProducts call that settles when it is no longer the active
\* request (handleReset has run, or a later selection was dispatched) does
\* not change products, searchError or isSearching.
C17_AbandonedResultsIgnored ==
    [][\A r \in searching :
          (r \notin searching' /\ activeSearch # Some(r))
              => UNCHANGED <<products, searchError, isSearching>>]_vars

\* C18: when a searchProducts call fails and no other call is pending,
\* searchError is a non-empty message, isSearching is false, products is
\* empty and the product sheet shows the error view; every selection clears
\* searchError and products as it is dispatched; and when the call of the
\* selection succeeds with no other call pending, the sheet shows its
\* products with no error.
C18_FailureSurfacedAndRetryable ==
    [][/\ \A r \in searching :
             (r \notin searching' /\ searching' = {} /\ ~OutcomeOf(r)'.ok)
                 => /\ searchError' # Null
                    /\ searchError'[1].message # ""
                    /\ ~isSearching'
                    /\ products' = <<>>
                    /\ ProductSheet(products, isSearching, searchError)' = "error"
       /\ nSearch' # nSearch => (searchError' = Null /\ products' = <<>>)
       /\ \A r \in searching :
             (r \notin searching' /\ searching' = {} /\ activeSearch = Some(r)
                  /\ OutcomeOf(r)'.ok)
                 => /\ products' = OutcomeOf(r)'.products
                    /\ searchError' = Null
                    /\ ProductSheet(products, isSearching, searchError)'
                           \in {"products", "empty"}]_vars

\* the fallback of <Suspense>, the neutral sphere of LoadingFallback, is
\* rendered while useLoader is pending
LoadingFallback == Mounted /\ texture = "loading"

\* C19: when loading the texture has failed, no error has left Scene360, the
\* neutral placeholder sphere is shown and the viewer is in mode navigate.
C19_LoadFailureContained ==
    texture = "failed" =>
        /\ thrown = Null
        /\ LoadingFallback
        /\ mode = "navigate"

\* C20: in every reachable state of Scene360 the Navigation action is
\* available and leads to mode = navigate with the selection overlay hidden
\* and the orbit controls enabled.
C20_CanAlwaysReturnToNavigate ==
    ENABLED (/\ NavigationClick
             /\ mode' = "navigate"
             /\ ~showSelectionOverlay'
             /\ OrbitEnabled')

\* C21: a step that calls onSelectProduct leaves mode, showSelectionOverlay,
\* capturedImage and captureRequested unchanged, so a further selection can
\* be made on the same frame; and mode goes from select to navigate only by
\* the close button of the overlay or by the Navigation button.
C21_DispatchStaysInSelect ==
    [][/\ selectCalls' # selectCalls
          => UNCHANGED <<mode, showSelectionOverlay, capturedImage, captureRequested>>
       /\ (mode = "select" /\ mode' = "navigate")
          => (NavigationClick \/ handleCloseOverlay)]_vars

\* two selections were dispatched one after the other on the frame of the
\* one capture, and the overlay is still open in select mode
C21_Witness ==
    /\ selectCalls = 2
    /\ captureCount = 1
    /\ mode = "select"
    /\ OverlayRendered(showSelectionOverlay, capturedImage)
    /\ croppedImage[1].frame = capturedImage[1].seq

\* C22: in every state of the mounted Scene360, showSelectionOverlay = true
\* implies mode = select.
C22_OverlayImpliesSelect ==
    Mounted => (showSelectionOverlay => mode = "select")

\* C23: in the counter-triggered variant the selection view is entered only
\* on request: the number of onCapture calls never exceeds the number of
\* clicks on the select button, also after the Canvas and CanvasCapture
\* are mounted again with the unchanged captureCounter
C23_CapturesOnlyOnRequest == ctCaptureCalls <= ctSelectClicks

\* C24: in the variant that renders the Canvas only in navigate mode a
\* select request is eventually served: once handleSelectMode has run with
\* the texture loaded, unless the user goes back to navigate, the
\* SelectionView is shown with a frame captured after that request
C24_SelectRequestServed ==
    (mcMode = "select" /\ mcCaptureRequested /\ mcTexture = "loaded")
        ~> (\/ /\ SelectionViewShown(mcMode, mcCapturedImage)
               /\ mcCapturedImage[1].request = mcRequests
            \/ mcMode = "navigate")

\* the mode changes the three-state variant allows
TSEdges ==
    {<<"navigate", "capture">>, <<"capture", "select">>,
     <<"capture", "navigate">>, <<"select", "navigate">>}

\* C25: in the three-state variant mode changes only along navigate ->
\* capture, capture -> select, capture -> navigate and select -> navigate;
\* each entry into capture produces at most one onCapture call and select
\* is reached only through that call; mode = select implies a captured
\* image, and the OrbitControls turn the camera exactly in navigate mode
C25_ThreeStateDiscipline ==
    [][/\ tsMode' # tsMode => <<tsMode, tsMode'>> \in TSEdges
       /\ tsCapturesThisEntry' <= 1
       /\ tsCaptureCalls' # tsCaptureCalls
          => tsMode = "capture" /\ tsCaptureCalls' = tsCaptureCalls + 1
       /\ (tsMode # "select" /\ tsMode' = "select")
          => tsCaptureCalls' = tsCaptureCalls + 1
       /\ tsMode = "select" => tsCapturedImage # Null
       /\ tsMode' = "select" => tsCapturedImage' # Null
       /\ (ENABLED (\E d \in 1 .. NumViews - 1 : TS_OrbitControls_rotate(d)))
          <=> tsMode = "navigate"]_vars

\* a capture cancelled while the texture was loading, then one that was
\* served: two entries into capture, one onCapture call, the frame of the
\* second entry on show
C25_Witness ==
    /\ tsMode = "select"
    /\ tsEntries = 2
    /\ tsCaptureCalls = 1
    /\ tsCapturedImage # Null
    /\ tsCapturedImage[1].entry = 2
    /\ tsSelectCalls = 1

C27_LastFiveMarkers ==
    /\ Len(markers) <= 5
    /\ Len(markers) = Min(5, Len(mkAccepted))
    /\ \A i \in 1 .. Len(markers) :
          markers[i] = mkAccepted[Len(mkAccepted) - Len(markers) + i]

\* six accepted clicks: the marker of the first one was dropped
C27_Witness ==
    /\ Len(mkAccepted) = 6
    /\ Len(markers) = 5
    /\ markers[1].id = 2
    /\ markers[5].id = 6
    /\ mkSelectCalls >= 1

\* C28: isSearching is true exactly when at least one searchProducts call
\* started by handleCropComplete has not yet settled, also when two
\* selections overlap and the earlier call settles first
C28_SearchingWhilePending == isSearching <=> (searching # {})

\* the values of the page state after construction
PageStartState ==
    /\ appState = "upload"
    /\ selectedFile = Null
    /\ style = ""
    /\ generatedImage = Null
    /\ enhancedStyle = Null
    /\ is360Format = FALSE
    /\ products = <<>>
    /\ pageCroppedImage = Null
    /\ searchError = Null
    /\ isSearching = FALSE
    /\ sheetOpen = FALSE

\* C29: handleReset resets the page to its start state: run with no
\* request pending, it leaves every page state variable at its initial
\* value
C29_ResetRestoresStart ==
    [][(handleReset /\ generating = {} /\ searching = {}) => PageStartState']_vars

\* C30: generation starts only with a file selected and a non-blank style;
\* a generateFurnishedRoom call that was pending when handleReset ran
\* changes neither appState nor generatedImage when it settles; a call that
\* was not reset leads to appState = result with generatedImage set on
\* success and back to appState = upload with selectedFile and style
\* unchanged on failure
C30_ResetNotOverridden ==
    [][/\ nGenerate' # nGenerate => (selectedFile # Null /\ Trim(style) # "")
       /\ \A g \in generating : \A ok \in BOOLEAN :
             \A format \in {"equirectangular_360", "standard"} :
                generateFurnishedRoom_settled(g, ok, format)
                   => IF g \in abandoned
                      THEN appState' = "upload" /\ generatedImage' = Null
                      ELSE IF ok
                      THEN appState' = "result" /\ generatedImage' # Null
                      ELSE /\ appState' = "upload"
                           /\ UNCHANGED <<selectedFile, style>>]_vars

====
